---- MODULE Spec2Model ----
(***************************************************************************)
(* Voice interaction coordinator of HealthyBuddy:                          *)
(*   healthybuddy/frontend/services/voiceService.ts (SystemTTS, TTSManager,*)
(*   VoiceService) and the api.textToSpeech client it calls.               *)
(*                                                                         *)
(* JavaScript runs one job at a time.  Each action below is one job: the   *)
(* synchronous code from a call or a resumption up to the next point where *)
(* the code waits for the platform (network, file system, native audio).  *)
(* A continuation that is only queued as a promise job runs before any     *)
(* platform event is delivered (MicrotaskPending).                         *)
(***************************************************************************)
EXTENDS Integers, Sequences, FiniteSets, TLC

\* ------------------------------------------------------------------ bounds
MaxOps == 2        \* speak() calls issued in one behaviour
MaxStops == 1      \* stopSpeaking() calls issued by the UI in one behaviour
MaxTicks == 5      \* clock ticks of TickMs in one behaviour
MaxStarts == 2     \* startRecording() calls issued in one behaviour
MaxRecStops == 2   \* stopRecording() calls issued in one behaviour
MaxArms == 2       \* startSilenceDetection() calls issued in one behaviour
MaxRecogs == 3      \* startSpeechRecognition() calls issued in one behaviour
MaxRecogStops == 1  \* stopSpeechRecognition() calls issued in one behaviour
MaxPolls == 23     \* clock ticks of PollMs while capturing

\* ------------------------------------------------------- program constants
RATE_LIMIT_COOLDOWN_MS == 30000
TIMEOUT_MS == 5000
TIMEOUT_COOLDOWN_MS == 10000
Null == 0

TickMs == TIMEOUT_MS
Ops == 1..MaxOps
\* The text of the n-th speak() call: distinct calls carry distinct texts.
Texts == <<"A", "B", "C", "D">>
Platforms == {"web", "mobile"}

\* Retry-After values the backend may send with a 429: absent, or a decimal string.
RetryAfterHeaders == {<<>>, <<"2", "0">>}

DigitValue(c) ==
  CASE c = "0" -> 0 [] c = "1" -> 1 [] c = "2" -> 2 [] c = "3" -> 3 [] c = "4" -> 4
    [] c = "5" -> 5 [] c = "6" -> 6 [] c = "7" -> 7 [] c = "8" -> 8 [] c = "9" -> 9

\* parseInt on a string of decimal digits (voiceService.ts:380).
RECURSIVE ParseIntAcc(_, _)
ParseIntAcc(s, acc) ==
  IF s = <<>> THEN acc ELSE ParseIntAcc(Tail(s), acc * 10 + DigitValue(Head(s)))

ParseInt(s) == ParseIntAcc(s, 0)

\* ------------------------------------------------------------------- state
VARIABLES
  platform,                      \* Platform.OS
  synthAvailable,                \* 'speechSynthesis' in window (web)
  now,                           \* Date.now()
  \* VoiceService fields
  currentSpeakPromise, currentSpeakAbortController, rateLimitUntil,
  sound, playAudioResolve, playAudioCheckInterval,
  \* SystemTTS / TTSManager fields
  isSpeaking, resolveCallback, currentEngine,
  \* one entry per speak() call
  opPc, opText, opUseOpenAI, opNow, audioBase64,       \* position, arguments, locals
  aborted, listener,                                    \* its AbortSignal
  opThrew, settled,                                     \* how its promise settles
  ttsSpeakCalls, handedText,                            \* its TTSManager.speak calls
  \* pending stopSpeaking() / SystemTTS.stop() continuations
  stopProcs, engineStops, nStops,
  lastAnswer,                    \* what the network did with the last request settled
  cancelledAt,                   \* where each pending call was when its token was aborted
  idleStop,                      \* a stopSpeaking() called when nothing was speaking runs
  stoppedMidFlight,              \* stopSpeaking() was called mid-flight, no speak() since
  \* platform: speech synthesizer, sounds, timers
  synthQueue, staleUtterance, soundState, staleAudio, intervals, finishReported

\* Audio capture: VoiceService's recording fields and the silence detector.
VARIABLES
  isRecording, recording, webRecording,
  silenceCheckInterval, recordingStartTime, lastSpeechActivityTime,
  \* one entry per startRecording() call
  startPc, startError, startCause,
  \* one entry per stopRecording() call
  stopPc, stopResult, stopTarget,
  \* platform: the input stream each start opened, whether it captured audio, and
  \* the stopRecording() call whose onstop handler its MediaRecorder holds
  stream, hasData, onstop,
  recordingSince,                \* when isRecording last became true
  armedAt, silenceFired, firedAt, \* the detector: when it was armed, its callbacks
  pollDue, nArms,                \* when its interval fires next; arm calls so far
  lastActivityAt                 \* when the user was last heard speaking

VARIABLES
  isRecognizing, recognition, currentRecognitionPromise,
  \* one entry per startSpeechRecognition() call
  recogPc,                       \* its position
  heard,                         \* the best result its handlers received
  resolvedWith,                  \* how its promise settled
  timeoutId,                     \* its timeout is pending
  silenceInterval,               \* its silence interval is set (mobile)
  timedOut,                      \* its timeout fired before it was resolved
  session,                       \* web: its SpeechRecognition object
  \* the Voice singleton (mobile): the call whose handlers it holds, and whether
  \* it is listening
  voiceOwner, voiceRunning,
  nRecogStops

recogVars == <<isRecognizing, recognition, currentRecognitionPromise, recogPc, heard,
               resolvedWith, timeoutId, silenceInterval, timedOut, session,
               voiceOwner, voiceRunning, nRecogStops>>

recVars == <<isRecording, recording, webRecording,
             silenceCheckInterval, recordingStartTime, lastSpeechActivityTime, lastActivityAt,
             startPc, startError, startCause, stopPc, stopResult, stopTarget,
             stream, hasData, onstop, recordingSince, armedAt, silenceFired, firedAt,
             pollDue, nArms>>

speechVars == <<synthAvailable,
          currentSpeakPromise, currentSpeakAbortController, rateLimitUntil,
          sound, playAudioResolve, playAudioCheckInterval,
          isSpeaking, resolveCallback, currentEngine,
          opPc, opText, opUseOpenAI, opNow, aborted, listener, opThrew, settled,
          audioBase64, ttsSpeakCalls, handedText,
          stopProcs, engineStops, nStops, lastAnswer, cancelledAt, idleStop, stoppedMidFlight,
          synthQueue, staleUtterance, soundState, staleAudio, intervals, finishReported>>

\* Speech output, audio capture and speech recognition share no field: each has
\* its own next-state relation below, which leaves the others' variables alone.
vars == <<platform, now, speechVars, recVars, recogVars>>

\* The whole state as one record, so that a handler's statements compose in order.
World ==
  [platform |-> platform, synthAvailable |-> synthAvailable, now |-> now,
   currentSpeakPromise |-> currentSpeakPromise,
   currentSpeakAbortController |-> currentSpeakAbortController,
   rateLimitUntil |-> rateLimitUntil,
   sound |-> sound, playAudioResolve |-> playAudioResolve,
   playAudioCheckInterval |-> playAudioCheckInterval,
   isSpeaking |-> isSpeaking, resolveCallback |-> resolveCallback,
   currentEngine |-> currentEngine,
   opPc |-> opPc, opText |-> opText, opUseOpenAI |-> opUseOpenAI, opNow |-> opNow,
   aborted |-> aborted, listener |-> listener, opThrew |-> opThrew, settled |-> settled,
   audioBase64 |-> audioBase64, ttsSpeakCalls |-> ttsSpeakCalls, handedText |-> handedText,
   stopProcs |-> stopProcs, engineStops |-> engineStops, nStops |-> nStops,
   lastAnswer |-> lastAnswer, cancelledAt |-> cancelledAt, idleStop |-> idleStop,
   stoppedMidFlight |-> stoppedMidFlight,
   synthQueue |-> synthQueue, staleUtterance |-> staleUtterance,
   soundState |-> soundState, staleAudio |-> staleAudio, intervals |-> intervals,
   finishReported |-> finishReported]

StopPcs == {"micro", "microEngine", "import", "stopAsync", "unloadAsync"}

Commit(w) ==
  /\ platform' = w.platform /\ synthAvailable' = w.synthAvailable /\ now' = w.now
  /\ currentSpeakPromise' = w.currentSpeakPromise
  /\ currentSpeakAbortController' = w.currentSpeakAbortController
  /\ rateLimitUntil' = w.rateLimitUntil
  /\ sound' = w.sound /\ playAudioResolve' = w.playAudioResolve
  /\ playAudioCheckInterval' = w.playAudioCheckInterval
  /\ isSpeaking' = w.isSpeaking /\ resolveCallback' = w.resolveCallback
  /\ currentEngine' = w.currentEngine
  /\ opPc' = w.opPc /\ opText' = w.opText /\ opUseOpenAI' = w.opUseOpenAI
  /\ opNow' = w.opNow /\ aborted' = w.aborted /\ listener' = w.listener
  /\ opThrew' = w.opThrew /\ settled' = w.settled
  /\ audioBase64' = w.audioBase64 /\ ttsSpeakCalls' = w.ttsSpeakCalls
  /\ handedText' = w.handedText
  /\ stopProcs' = w.stopProcs /\ engineStops' = w.engineStops /\ nStops' = w.nStops
  /\ lastAnswer' = w.lastAnswer /\ cancelledAt' = w.cancelledAt
  /\ stoppedMidFlight' = w.stoppedMidFlight
  /\ idleStop' = (w.idleStop /\ \E p \in StopPcs : w.stopProcs[p] > 0)
  /\ synthQueue' = w.synthQueue /\ staleUtterance' = w.staleUtterance
  /\ soundState' = w.soundState /\ staleAudio' = w.staleAudio
  /\ intervals' = w.intervals /\ finishReported' = w.finishReported
  /\ UNCHANGED <<recVars, recogVars>>

NoResolver == [kind |-> "null", op |-> Null]
PromiseResolve(o) == [kind |-> "resolve", op |-> o]
DoResolveRef(o) == [kind |-> "doResolve", op |-> o]

Range(s) == {s[i] : i \in 1..Len(s)}

Starts == 1..MaxStarts
\* No time: the value of a timestamp that was not taken.
Never == 0 - 1
RecStops == 1..MaxRecStops

\* Field initialisers of the recording state; nothing is open, no call was made.
Recogs == 1..MaxRecogs

RecogInit ==
  /\ isRecognizing = FALSE /\ recognition = Null /\ currentRecognitionPromise = Null
  /\ recogPc = [c \in Recogs |-> "none"]
  /\ heard = [c \in Recogs |-> "none"]
  /\ resolvedWith = [c \in Recogs |-> "pending"]
  /\ timeoutId = [c \in Recogs |-> FALSE]
  /\ silenceInterval = [c \in Recogs |-> FALSE]
  /\ timedOut = [c \in Recogs |-> FALSE]
  /\ session = [c \in Recogs |-> "none"]
  /\ voiceOwner = Null /\ voiceRunning = FALSE
  /\ nRecogStops = 0

RecInit ==
  /\ isRecording = FALSE /\ recording = Null /\ webRecording = Null
  /\ silenceCheckInterval = Null /\ recordingStartTime = 0
  /\ lastSpeechActivityTime = 0
  /\ lastActivityAt = Never
  /\ startPc = [k \in Starts |-> "none"]
  /\ startError = [k \in Starts |-> <<>>]
  /\ startCause = [k \in Starts |-> "none"]
  /\ stopPc = [j \in RecStops |-> "none"]
  /\ stopResult = [j \in RecStops |-> "pending"]
  /\ stopTarget = [j \in RecStops |-> Null]
  /\ stream = [k \in Starts |-> "none"]
  /\ hasData = [k \in Starts |-> FALSE]
  /\ onstop = [k \in Starts |-> Null]
  /\ recordingSince = Never
  /\ armedAt = Never /\ silenceFired = 0 /\ firedAt = Never
  /\ pollDue = Never /\ nArms = 0

Init ==
  /\ platform \in Platforms
  /\ synthAvailable \in BOOLEAN
  /\ (platform = "mobile" => synthAvailable)
  /\ now = 0
  /\ currentSpeakPromise = Null /\ currentSpeakAbortController = Null
  /\ rateLimitUntil = 0
  /\ sound = Null /\ playAudioResolve = NoResolver /\ playAudioCheckInterval = Null
  /\ isSpeaking = FALSE /\ resolveCallback = Null /\ currentEngine = FALSE
  /\ opPc = [o \in Ops |-> "none"]
  /\ opText = [o \in Ops |-> "-"]
  /\ opUseOpenAI = [o \in Ops |-> FALSE]
  /\ opNow = [o \in Ops |-> 0]
  /\ aborted = [o \in Ops |-> FALSE]
  /\ listener = [o \in Ops |-> FALSE]
  /\ opThrew = [o \in Ops |-> FALSE]
  /\ settled = [o \in Ops |-> "pending"]
  /\ audioBase64 = [o \in Ops |-> "unset"]
  /\ ttsSpeakCalls = [o \in Ops |-> 0]
  /\ handedText = [o \in Ops |-> "-"]
  /\ stopProcs = [p \in StopPcs |-> 0]
  /\ engineStops = 0 /\ nStops = 0
  /\ lastAnswer = "none" /\ idleStop = FALSE
  /\ cancelledAt = [o \in Ops |-> "none"]
  /\ stoppedMidFlight = FALSE
  /\ synthQueue = <<>> /\ staleUtterance = {}
  /\ soundState = [o \in Ops |-> "none"]
  /\ staleAudio = {} /\ intervals = {} /\ finishReported = {}
  /\ RecInit
  /\ RecogInit

\* ------------------------------------------------- promises and the platform

\* A pending promise of call o (awaited at `at`) is resolved: its continuation is queued.
Resolve(w, o, at) ==
  IF w.opPc[o] = at THEN [w EXCEPT !.opPc[o] = "resolved"] ELSE w

\* The async function of call o returns: speak()'s await continues next.
Return(w, o) == [w EXCEPT !.opPc[o] = "resolved"]

\* The async function of call o throws: the rejection reaches speak()'s await.
Throw(w, o) == [w EXCEPT !.opPc[o] = "resolved", !.opThrew[o] = TRUE]

\* window.speechSynthesis.cancel() / Speech.stop(): every utterance is dropped.  The
\* browser still delivers an end or error event for each dropped utterance later;
\* expo-speech reports a stop through onStopped, which the code does not register.
SynthCancel(w) ==
  [w EXCEPT !.synthQueue = <<>>,
            !.staleUtterance = IF w.platform = "web" THEN @ \cup Range(w.synthQueue) ELSE @]

\* SystemTTS.cleanup
Cleanup(w) ==
  LET w1 == [w EXCEPT !.isSpeaking = FALSE]
  IN IF w1.resolveCallback = Null THEN w1
     ELSE [Resolve(w1, w1.resolveCallback, "speaking") EXCEPT !.resolveCallback = Null]

\* SystemTTS.isAvailable
IsAvailable(w) == IF w.platform = "web" THEN w.synthAvailable ELSE TRUE

\* SystemTTS.stop on web: no await is reached, the whole body runs at the call.
SystemStopWeb(w) == Cleanup(IF IsAvailable(w) THEN SynthCancel(w) ELSE w)

\* SystemTTS.stop on mobile after `await import('expo-speech')`: Speech.stop(); cleanup().
SystemStopMobileResume(w) == Cleanup(SynthCancel(w))

\* The 'abort' listener SystemTTS registers on the signal: this.stop(); resolve().
\* On mobile this.stop() is not awaited: it continues on its own (engineStops).
AbortListener(w, o) ==
  LET w1 == IF w.platform = "web" THEN SystemStopWeb(w)
            ELSE [w EXCEPT !.engineStops = @ + 1]
  IN Resolve(w1, o, "speaking")

\* An abort() that leaves the token as it is.
AbortNothing(w, o) == w

\* AbortController.abort() of call o: the flag flips once and the listeners run.
Abort(w, o) ==
  IF w.aborted[o] THEN w
  ELSE LET w1 == [w EXCEPT !.aborted[o] = TRUE, !.cancelledAt[o] = w.opPc[o]]
       IN IF w1.listener[o] THEN AbortListener(w1, o) ELSE w1

\* ------------------------------------------------------------ audio playback
RECURSIVE CleanupAudio(_)

\* doResolve of playAudioMobile, for the promise of call o.
DoResolve(w, o) ==
  IF w.playAudioResolve # PromiseResolve(o) THEN w
  ELSE LET w1 == CleanupAudio(w)
           w2 == IF w1.sound = o
                 THEN [w1 EXCEPT !.soundState[o] = "unloaded", !.sound = Null]
                 ELSE w1
       IN Resolve(w2, o, "play")

\* this.playAudioResolve(): the stored function is a promise's resolve or a doResolve.
CallPlayAudioResolve(w) ==
  IF w.playAudioResolve.kind = "resolve" THEN Resolve(w, w.playAudioResolve.op, "play")
  ELSE DoResolve(w, w.playAudioResolve.op)

\* VoiceService.cleanupAudio
CleanupAudio(w) ==
  LET w1 == IF w.playAudioCheckInterval # Null
            THEN [w EXCEPT !.intervals = @ \ {w.playAudioCheckInterval},
                           !.playAudioCheckInterval = Null]
            ELSE w
  IN IF w1.playAudioResolve = NoResolver THEN w1
     ELSE [CallPlayAudioResolve(w1) EXCEPT !.playAudioResolve = NoResolver]

\* sound.pause(); sound.src = '' on an HTMLAudioElement: playback stops, and the
\* element may still deliver an error event for the emptied source.
PauseWeb(w, s) ==
  [w EXCEPT !.soundState[s] = IF @ = "playing" THEN "paused" ELSE @,
            !.staleAudio = @ \cup {s}]

\* VoiceService.playAudioWeb
PlayAudioWeb(w, o) ==
  LET w1 == IF w.sound # Null THEN [PauseWeb(w, w.sound) EXCEPT !.sound = Null] ELSE w
  IN [w1 EXCEPT !.playAudioResolve = PromiseResolve(o),
                !.sound = o,
                !.soundState[o] = "playing",
                !.opPc[o] = "play"]

\* onended / onerror / play().catch of playAudioWeb: cleanupAudio(); resolve().
AudioHandler(w, o) == Resolve(CleanupAudio(w), o, "play")

\* VoiceService.playAudioMobile from cleanupAudio() to the createAsync call.
PlayAudioMobileCreate(w, o) == [CleanupAudio(w) EXCEPT !.opPc[o] = "create"]

\* VoiceService.playAudioMobile up to its first await.
PlayAudioMobile(w, o) ==
  IF w.sound # Null
  THEN [w EXCEPT !.soundState[w.sound] = "unloaded", !.opPc[o] = "unload"]
  ELSE PlayAudioMobileCreate(w, o)

\* playAudioMobile after `await this.sound.unloadAsync()`.
AfterUnload(w, o) == PlayAudioMobileCreate([w EXCEPT !.sound = Null], o)

\* playAudioMobile after `await Audio.Sound.createAsync(.., {shouldPlay: true})`.
AfterCreate(w, o, ok) ==
  IF ~ok THEN Throw(w, o)
  ELSE [w EXCEPT !.sound = o,
                 !.soundState[o] = "playing",
                 !.playAudioResolve = DoResolveRef(o),
                 !.playAudioCheckInterval = o,
                 !.intervals = @ \cup {o},
                 !.opPc[o] = "play"]

\* VoiceService.playAudio
PlayAudio(w, o) ==
  IF w.platform = "web" THEN PlayAudioWeb(w, o) ELSE PlayAudioMobile(w, o)

\* ---------------------------------------------------------------- system TTS

\* SystemTTS.speakWeb: the promise executor runs at the call.
SpeakWeb(w, o) ==
  IF w.aborted[o] THEN Return(w, o)
  ELSE IF ~IsAvailable(w) THEN Return(w, o)
  ELSE LET w1 == IF w.isSpeaking THEN SynthCancel(w) ELSE w
       IN IF w1.aborted[o] THEN Return(w1, o)
          ELSE [w1 EXCEPT !.isSpeaking = TRUE,
                          !.resolveCallback = o,
                          !.listener[o] = TRUE,
                          !.synthQueue = Append(@, o),
                          !.opPc[o] = "speaking"]

\* SystemTTS.speakMobile after `await this.stop()`, up to setAudioModeAsync.
SpeakMobileAfterStop(w, o) ==
  IF w.aborted[o] THEN Return(w, o) ELSE [w EXCEPT !.opPc[o] = "audioMode"]

\* SystemTTS.speakMobile up to its first await.
SpeakMobile(w, o) ==
  IF w.aborted[o] THEN Return(w, o)
  ELSE IF w.isSpeaking THEN [w EXCEPT !.opPc[o] = "sysStop"]
  ELSE SpeakMobileAfterStop(w, o)

\* SystemTTS.speakMobile after `await import('expo-speech')`, up to Speech.speak.
SpeakMobileAfterImport(w, o) ==
  IF w.aborted[o] THEN Return(w, o)
  ELSE [w EXCEPT !.isSpeaking = TRUE,
                 !.resolveCallback = o,
                 !.synthQueue = Append(@, o),
                 !.listener[o] = TRUE,
                 !.opPc[o] = "speaking"]

\* SystemTTS.speak
SystemTtsSpeak(w, o) ==
  IF w.aborted[o] THEN Return(w, o)
  ELSE IF w.platform = "web" THEN SpeakWeb(w, o)
  ELSE SpeakMobile(w, o)

\* utterance.onend / onDone
OnEnd(w, o) == Resolve(IF ~w.aborted[o] THEN Cleanup(w) ELSE w, o, "speaking")

\* utterance.onerror / onError
OnError(w, o) == Resolve(Cleanup(w), o, "speaking")

\* TTSManager.speak: the engine list holds the one SystemTTS.
\* (ttsSpeakCalls and handedText record the call and its text argument.)
TtsManagerSpeak(w, o, text) ==
  LET w0 == [w EXCEPT !.ttsSpeakCalls[o] = @ + 1, !.handedText[o] = text]
  IN IF w0.aborted[o] THEN Return(w0, o)
     ELSE IF IsAvailable(w0) THEN SystemTtsSpeak([w0 EXCEPT !.currentEngine = TRUE], o)
     ELSE Return(w0, o)

\* ------------------------------------------------------------- remote TTS

\* What the network does with one POST /api/voice/tts.
NetOutcomes ==
  {[kind |-> "ok", audio |-> a, status |-> 200, retryAfter |-> <<>>] : a \in BOOLEAN}
  \cup {[kind |-> "http", audio |-> FALSE, status |-> 429, retryAfter |-> h] :
          h \in RetryAfterHeaders}
  \cup {[kind |-> "http", audio |-> FALSE, status |-> 500, retryAfter |-> <<>>]}
  \cup {[kind |-> "neterr", audio |-> FALSE, status |-> 0, retryAfter |-> <<>>]}
  \cup {[kind |-> "timeout", audio |-> FALSE, status |-> 0, retryAfter |-> <<>>]}

ReturnValue(v) ==
  [type |-> "return", value |-> v, status |-> 0, message |-> "", retryAfter |-> <<>>]

\* api.textToSpeech: what the caller gets for each thing the network does.
ApiTextToSpeech(net) ==
  IF net.kind = "ok" THEN ReturnValue(IF net.audio THEN "audio" ELSE "null")
  ELSE IF net.kind = "http" THEN
    IF net.status = 429
    THEN [type |-> "throw", value |-> "null", status |-> 429,
          message |-> "Rate limit exceeded",
          retryAfter |-> IF net.retryAfter # <<>> THEN net.retryAfter ELSE <<"2", "0">>]
    ELSE ReturnValue("null")
  ELSE ReturnValue("null")

\* String.includes on the error messages that occur.
MessageIncludes(message, part) ==
  \/ message = "Rate limit exceeded" /\ part = "Rate limit"
  \/ message = "TTS API request timeout" /\ part = "timeout"

\* The catch block of executeSpeakWithOpenAI; n is the `now` read before the call.
OnTtsError(w, n, error) ==
  LET isRateLimit == \/ error.status = 429
                     \/ MessageIncludes(error.message, "Rate limit")
                     \/ MessageIncludes(error.message, "rate_limit")
  IN IF isRateLimit
     THEN LET retryAfter == IF error.retryAfter # <<>>
                            THEN ParseInt(error.retryAfter) * 1000
                            ELSE RATE_LIMIT_COOLDOWN_MS
          IN [w EXCEPT !.rateLimitUntil = n + retryAfter]
     ELSE IF MessageIncludes(error.message, "timeout")
     THEN [w EXCEPT !.rateLimitUntil = n + TIMEOUT_COOLDOWN_MS]
     ELSE w

\* executeSpeakWithOpenAI without its fallback: it returns after the remote path failed.
FallbackOmitted(w, o, text) == Return(w, o)

\* A fallback that does not look at the token.
FallbackUnguarded(w, o, text) == TtsManagerSpeak(w, o, text)

\* executeSpeakWithOpenAI: the fallback to system TTS.
Fallback(w, o, text) ==
  IF ~w.aborted[o] THEN TtsManagerSpeak(w, o, text) ELSE Return(w, o)

\* executeSpeakWithOpenAI after `await api.textToSpeech(text)`.
AfterTextToSpeech(w, o, res) ==
  LET w0 == [w EXCEPT !.audioBase64[o] = IF res.type = "return" THEN res.value ELSE "null"]
      w1 == IF res.type = "throw" THEN OnTtsError(w0, w0.opNow[o], res) ELSE w0
  IN IF w1.aborted[o] THEN Return(w1, o)
     ELSE IF w1.audioBase64[o] = "audio"
     THEN LET w2 == [w1 EXCEPT !.rateLimitUntil = 0]
          IN IF w2.platform = "web"
             THEN (IF ~w2.aborted[o] THEN PlayAudio(w2, o) ELSE Fallback(w2, o, w2.opText[o]))
             ELSE [w2 EXCEPT !.opPc[o] = "save"]
     ELSE Fallback(w1, o, w1.opText[o])

\* executeSpeakWithOpenAI after `await this.saveBase64AsAudio(..)` on mobile;
\* ok: the file was written (a uri), otherwise saveBase64AsAudio returned null.
AfterSave(w, o, ok) ==
  IF ok /\ ~w.aborted[o] THEN PlayAudio(w, o) ELSE Fallback(w, o, w.opText[o])

\* A system path that asks the backend when no cooldown is running.
ExecuteSpeakRemoteFirst(w, o, text) ==
  IF w.aborted[o] THEN Return(w, o)
  ELSE IF w.now < w.rateLimitUntil THEN TtsManagerSpeak(w, o, text)
  ELSE [w EXCEPT !.opNow[o] = w.now, !.opPc[o] = "fetch"]

\* VoiceService.executeSpeakWithSystem
ExecuteSpeakWithSystem(w, o, text) ==
  IF w.aborted[o] THEN Return(w, o) ELSE TtsManagerSpeak(w, o, text)

\* executeSpeakWithOpenAI without the cooldown check: it always asks the backend.
ExecuteSpeakIgnoringCooldown(w, o, text) ==
  IF w.aborted[o] THEN Return(w, o)
  ELSE [w EXCEPT !.opNow[o] = w.now, !.opPc[o] = "fetch"]

\* VoiceService.executeSpeakWithOpenAI up to its first await.
ExecuteSpeakWithOpenAI(w, o, text) ==
  IF w.aborted[o] THEN Return(w, o)
  ELSE LET n == w.now
       IN IF n < w.rateLimitUntil THEN TtsManagerSpeak(w, o, text)
          ELSE [w EXCEPT !.opNow[o] = n, !.opPc[o] = "fetch"]

\* ------------------------------------------------------------ stopSpeaking

\* A stopSpeaking() call suspends at / resumes from the await named pc.
Suspend(w, pc) == [w EXCEPT !.stopProcs[pc] = @ + 1]
Resume(w, pc) == [w EXCEPT !.stopProcs[pc] = @ - 1]

\* VoiceService.stopSpeaking up to its first await (inside TTSManager.stop).
StopSpeakingCall(w) ==
  LET w1 == IF w.currentSpeakAbortController # Null
            THEN [Abort(w, w.currentSpeakAbortController)
                    EXCEPT !.currentSpeakAbortController = Null]
            ELSE w
  IN IF w1.currentEngine
     THEN (IF w1.platform = "web" THEN Suspend(SystemStopWeb(w1), "microEngine")
           ELSE Suspend(w1, "import"))
     ELSE Suspend(w1, "micro")

\* stopSpeaking after `await this.ttsManager.stop()`: cleanupAudio() and the sound.
\* stopAsync on a sound that is no longer loaded rejects, which the catch absorbs.
StopAfterEngine(w) ==
  LET w1 == CleanupAudio(w)
  IN IF w1.sound = Null THEN w1
     ELSE IF w1.platform = "web"
     THEN [PauseWeb(w1, w1.sound) EXCEPT !.sound = Null]
     ELSE IF w1.soundState[w1.sound] = "unloaded"
     THEN [w1 EXCEPT !.sound = Null]
     ELSE Suspend([w1 EXCEPT !.soundState[w1.sound] =
                               IF @ = "playing" THEN "stopped" ELSE @],
                  "stopAsync")

\* TTSManager.stop after `await this.currentEngine.stop()`, then the rest.
StopAfterEngineStop(w) == StopAfterEngine([w EXCEPT !.currentEngine = FALSE])

\* stopSpeaking after `await this.sound.stopAsync()`: this.sound is read again.
StopAfterStopAsync(w) ==
  IF w.sound = Null THEN w
  ELSE Suspend([w EXCEPT !.soundState[w.sound] = "unloaded"], "unloadAsync")

\* stopSpeaking after `await this.sound.unloadAsync()`.
StopAfterUnloadAsync(w) == [w EXCEPT !.sound = Null]

\* -------------------------------------------------------------------- speak

\* speak() without its catch block: a rejection of the awaited promise reaches the caller.
SpeakOutcomeNoCatch(threw) == IF threw THEN "rejected" ELSE "fulfilled"

\* What speak()'s try/catch makes of the awaited promise's outcome.
SpeakOutcome(threw) == "fulfilled"

\* VoiceService.speak up to `await speakPromise`.
SpeakCall(w, o, text, useOpenAI) ==
  LET w1 == IF w.currentSpeakAbortController # Null
            THEN [Abort(w, w.currentSpeakAbortController)
                    EXCEPT !.currentSpeakAbortController = Null]
            ELSE w
      w2 == StopSpeakingCall(w1)
      w3 == [w2 EXCEPT !.currentSpeakAbortController = o,
                       !.opText[o] = text,
                       !.opUseOpenAI[o] = useOpenAI]
      w4 == IF useOpenAI THEN ExecuteSpeakWithOpenAI(w3, o, text)
            ELSE ExecuteSpeakWithSystem(w3, o, text)
  IN [w4 EXCEPT !.currentSpeakPromise = o, !.idleStop = FALSE,
                !.stoppedMidFlight = FALSE]

\* The finally block without its ownership test: it clears both fields whoever
\* they belong to.
SpeakFinallyUnguarded(w, o) ==
  [w EXCEPT !.currentSpeakPromise = Null, !.currentSpeakAbortController = Null,
            !.settled[o] = SpeakOutcome(w.opThrew[o]), !.opPc[o] = "done",
            !.opNow[o] = 0, !.audioBase64[o] = "unset", !.cancelledAt[o] = "none"]

\* VoiceService.speak after `await speakPromise`: catch, finally, and the result.
SpeakFinally(w, o) ==
  LET w1 == IF w.currentSpeakPromise = o /\ w.currentSpeakAbortController = o
            THEN [w EXCEPT !.currentSpeakPromise = Null,
                           !.currentSpeakAbortController = Null]
            ELSE w
  IN [w1 EXCEPT !.settled[o] = SpeakOutcome(w.opThrew[o]), !.opPc[o] = "done",
                !.opNow[o] = 0, !.audioBase64[o] = "unset", !.cancelledAt[o] = "none"]

\* ------------------------------------------------------------------ actions

\* A continuation is queued as a promise job: it runs before any platform event.
\* import('expo-speech') loads a module bundled with the app, so the continuations
\* that await it are promise jobs too.
MicrotaskPending ==
  \/ \E o \in Ops : opPc[o] \in {"resolved", "import"}
  \/ stopProcs["micro"] > 0
  \/ stopProcs["microEngine"] > 0
  \/ stopProcs["import"] > 0
  \/ engineStops > 0

NextOp == CHOOSE o \in Ops : opPc[o] = "none" /\ \A p \in Ops : p < o => opPc[p] # "none"

\* The UI calls voiceService.speak(text, useOpenAI).
Speak ==
  /\ \E o \in Ops : opPc[o] = "none"
  /\ \E useOpenAI \in BOOLEAN :
       Commit(SpeakCall(World, NextOp, Texts[NextOp], useOpenAI))

\* The audio outputs that are playing.
AudibleOutputs ==
  {<<"sound", o>> : o \in {p \in Ops : soundState[p] = "playing"}}
  \cup (IF synthQueue # <<>> THEN {<<"utterance", Head(synthQueue)>>} ELSE {})

\* No speak() call is in flight, no teardown is running and nothing is audible.
NothingSpeaking ==
  /\ \A o \in Ops : opPc[o] \in {"none", "done"}
  /\ \A p \in StopPcs : stopProcs[p] = 0
  /\ engineStops = 0
  /\ AudibleOutputs = {}

\* A speak() call has not resolved yet.
SpeakInFlight == \E o \in Ops : opPc[o] \notin {"none", "done"}

\* The UI calls voiceService.stopSpeaking().
StopSpeaking ==
  /\ nStops < MaxStops
  /\ Commit([StopSpeakingCall(World) EXCEPT !.nStops = @ + 1,
                                            !.idleStop = NothingSpeaking,
                                            !.stoppedMidFlight = SpeakInFlight])

\* speak() continues after its awaited promise settled.
SpeakResume ==
  \E o \in Ops : opPc[o] = "resolved" /\ Commit(SpeakFinally(World, o))

\* stopSpeaking() continues after TTSManager.stop() where no platform call was awaited.
StopResumeMicro ==
  \/ /\ stopProcs["micro"] > 0
     /\ Commit(StopAfterEngine(Resume(World, "micro")))
  \/ /\ stopProcs["microEngine"] > 0
     /\ Commit(StopAfterEngineStop(Resume(World, "microEngine")))

\* stopSpeaking() on mobile: the awaited SystemTTS.stop() finished its import.
StopResumeImport ==
  /\ stopProcs["import"] > 0
  /\ Commit(StopAfterEngineStop(SystemStopMobileResume(Resume(World, "import"))))

\* stopSpeaking() on mobile: sound.stopAsync() completed.
StopResumeStopAsync ==
  /\ ~MicrotaskPending
  /\ stopProcs["stopAsync"] > 0
  /\ Commit(StopAfterStopAsync(Resume(World, "stopAsync")))

\* stopSpeaking() on mobile: sound.unloadAsync() completed.
StopResumeUnloadAsync ==
  /\ ~MicrotaskPending
  /\ stopProcs["unloadAsync"] > 0
  /\ Commit(StopAfterUnloadAsync(Resume(World, "unloadAsync")))

\* The SystemTTS.stop() started by an abort listener on mobile finished its import.
EngineStopResume ==
  /\ engineStops > 0
  /\ Commit(SystemStopMobileResume([World EXCEPT !.engineStops = @ - 1]))

AnswerKind(net) ==
  IF net.kind = "ok" THEN (IF net.audio THEN "audio" ELSE "null")
  ELSE IF net.status = 429 THEN "rateLimit"
  ELSE IF net.kind = "timeout" THEN "timeout"
  ELSE "error"

\* The 5 s timer of api.textToSpeech has fired for the pending request of call o.
TimedOut(o) == now - opNow[o] >= TIMEOUT_MS

\* The network answers a pending api.textToSpeech call, or its 5 s timer fires first.
FetchSettles ==
  /\ ~MicrotaskPending
  /\ \E o \in Ops, net \in NetOutcomes :
       /\ opPc[o] = "fetch"
       /\ IF net.kind = "timeout" THEN TimedOut(o) ELSE ~TimedOut(o)
       /\ Commit(AfterTextToSpeech([World EXCEPT !.lastAnswer = AnswerKind(net)],
                                   o, ApiTextToSpeech(net)))

\* FileSystem.writeAsStringAsync completed or failed.
SaveSettles ==
  /\ ~MicrotaskPending
  /\ \E o \in Ops, ok \in BOOLEAN : opPc[o] = "save" /\ Commit(AfterSave(World, o, ok))

\* playAudioMobile: unloadAsync of the previous sound completed.
UnloadSettles ==
  /\ ~MicrotaskPending
  /\ \E o \in Ops : opPc[o] = "unload" /\ Commit(AfterUnload(World, o))

\* playAudioMobile: Audio.Sound.createAsync completed (the sound plays) or failed.
CreateSettles ==
  /\ ~MicrotaskPending
  /\ \E o \in Ops, ok \in BOOLEAN : opPc[o] = "create" /\ Commit(AfterCreate(World, o, ok))

\* speakMobile: the awaited SystemTTS.stop() finished.
SysStopSettles ==
  /\ ~MicrotaskPending
  /\ \E o \in Ops :
       /\ opPc[o] = "sysStop"
       /\ Commit(SpeakMobileAfterStop(SystemStopMobileResume(World), o))

\* speakMobile: Audio.setAudioModeAsync settled (a failure is only logged).
AudioModeSettles ==
  /\ ~MicrotaskPending
  /\ \E o \in Ops : opPc[o] = "audioMode" /\ Commit([World EXCEPT !.opPc[o] = "import"])

\* speakMobile: import('expo-speech') completed.
ImportSettles ==
  /\ \E o \in Ops : opPc[o] = "import" /\ Commit(SpeakMobileAfterImport(World, o))

\* The synthesizer finishes the utterance it is speaking: onend / onDone.
UtteranceEnds ==
  /\ ~MicrotaskPending
  /\ synthQueue # <<>>
  /\ Commit(OnEnd([World EXCEPT !.synthQueue = Tail(@)], Head(synthQueue)))

\* The synthesizer fails on the utterance it is speaking: onerror / onError.
UtteranceErrors ==
  /\ ~MicrotaskPending
  /\ synthQueue # <<>>
  /\ Commit(OnError([World EXCEPT !.synthQueue = Tail(@)], Head(synthQueue)))

\* The browser delivers the event of an utterance that cancel() dropped.
StaleUtteranceEvent ==
  /\ ~MicrotaskPending
  /\ \E o \in staleUtterance :
       \/ Commit(OnEnd([World EXCEPT !.staleUtterance = @ \ {o}], o))
       \/ Commit(OnError([World EXCEPT !.staleUtterance = @ \ {o}], o))

\* Web: the audio element plays to its end: onended.
AudioEnds ==
  /\ ~MicrotaskPending
  /\ platform = "web"
  /\ \E o \in Ops :
       /\ soundState[o] = "playing"
       /\ Commit(AudioHandler([World EXCEPT !.soundState[o] = "ended",
                                            !.finishReported = @ \cup {o}], o))

\* Web: the audio element fails, or play() is rejected: onerror / play().catch.
AudioErrors ==
  /\ ~MicrotaskPending
  /\ platform = "web"
  /\ \E o \in Ops :
       /\ soundState[o] = "playing"
       /\ Commit(AudioHandler([World EXCEPT !.soundState[o] = "error",
                                            !.finishReported = @ \cup {o}], o))

\* Web: an element whose source was emptied delivers its error event.
StaleAudioEvent ==
  /\ ~MicrotaskPending
  /\ \E o \in staleAudio : Commit(AudioHandler([World EXCEPT !.staleAudio = @ \ {o}], o))

\* Mobile: the native sound plays to its end.
SoundFinishes ==
  /\ ~MicrotaskPending
  /\ platform = "mobile"
  /\ \E o \in Ops : soundState[o] = "playing"
       /\ Commit([World EXCEPT !.soundState[o] = "finished"])

\* What getStatusAsync / a status update reports makes the callbacks call doResolve.
StatusSaysStopped(w, o) == w.soundState[o] # "playing"

\* Mobile: one run of the 50 ms status poll of call o.
PlayAudioPoll ==
  /\ ~MicrotaskPending
  /\ \E o \in intervals :
       Commit(LET w == [World EXCEPT !.finishReported =
                          IF soundState[o] = "finished" THEN @ \cup {o} ELSE @]
              IN IF w.sound = Null \/ w.sound # o THEN DoResolve(w, o)
                 ELSE IF StatusSaysStopped(w, o) THEN DoResolve(w, o)
                 ELSE w)

\* Mobile: the status-update callback of call o's sound runs.
PlaybackStatusUpdate ==
  /\ ~MicrotaskPending
  /\ \E o \in Ops :
       /\ opPc[o] = "play" /\ platform = "mobile"
       /\ soundState[o] \in {"playing", "stopped", "finished"}
       /\ Commit(LET w == [World EXCEPT !.finishReported =
                             IF soundState[o] = "finished" THEN @ \cup {o} ELSE @]
                 IN IF StatusSaysStopped(w, o) THEN DoResolve(w, o) ELSE w)

\* The code reads the clock only to compare it with rateLimitUntil and, through the
\* request timer, with the time a pending request was issued.  In every other state
\* behaviour does not depend on how much time passes, and the clock stands still.
ClockObserved == now < rateLimitUntil \/ \E o \in Ops : opPc[o] = "fetch"

\* Time passes.
Tick ==
  /\ ~MicrotaskPending
  /\ now < MaxTicks * TickMs
  /\ ClockObserved
  /\ now' = now + TickMs
  /\ UNCHANGED <<platform, speechVars, recVars, recogVars>>

Next ==
  \/ Speak \/ StopSpeaking \/ SpeakResume \/ StopResumeMicro
  \/ StopResumeImport \/ StopResumeStopAsync \/ StopResumeUnloadAsync \/ EngineStopResume
  \/ FetchSettles \/ SaveSettles \/ UnloadSettles \/ CreateSettles
  \/ SysStopSettles \/ AudioModeSettles \/ ImportSettles
  \/ UtteranceEnds \/ UtteranceErrors \/ StaleUtteranceEvent
  \/ AudioEnds \/ AudioErrors \/ StaleAudioEvent
  \/ SoundFinishes \/ PlayAudioPoll \/ PlaybackStatusUpdate
  \/ Tick

Spec == Init /\ [][Next]_vars

\* Every step the program and the platform take without a new call from the UI.
SystemNext ==
  \/ SpeakResume \/ StopResumeMicro
  \/ StopResumeImport \/ StopResumeStopAsync \/ StopResumeUnloadAsync \/ EngineStopResume
  \/ FetchSettles \/ SaveSettles \/ UnloadSettles \/ CreateSettles
  \/ SysStopSettles \/ AudioModeSettles \/ ImportSettles
  \/ UtteranceEnds \/ UtteranceErrors \/ StaleUtteranceEvent
  \/ AudioEnds \/ AudioErrors \/ StaleAudioEvent
  \/ SoundFinishes \/ PlayAudioPoll \/ PlaybackStatusUpdate

\* The event loop runs every queued continuation and the platform completes every
\* request, so a step of the program that stays possible is eventually taken.
FairSpec == Spec /\ WF_vars(SystemNext)

\* Nothing is left that could still change the state unless the UI calls again.
Quiescent == ~ENABLED <<SystemNext>>_vars

\* Call o is producing sound: its audio plays, or its utterance is being spoken.
Audible(o) ==
  \/ soundState[o] = "playing"
  \/ synthQueue # <<>> /\ Head(synthQueue) = o

----------------------------------------------------------------------------
\* C1: at most one playback is audible at any time; once the coordinator's own
\* continuations have run, the remote-audio sounds and the system utterance that
\* are playing number at most one.
AtMostOnePlayback ==
  ~MicrotaskPending => Cardinality(AudibleOutputs) <= 1

\* C2: cancellation is terminal; no step makes a call whose token is already
\* aborted start a playback that was not audible before the step.
CancellationTerminal ==
  [][\A o \in Ops : aborted[o] => (Audible(o)' => Audible(o))]_vars

\* C3: a speak() that was waiting for the backend, playing remote audio or speaking
\* through the system engine when it was superseded or cancelled resolves; when the
\* program has run until nothing more can happen, every such call is fulfilled.
CancelledSpeakResolves ==
  Quiescent =>
    \A o \in Ops : cancelledAt[o] \in {"fetch", "play", "speaking"}
                      => settled[o] = "fulfilled"

\* C4: once playback of call o's audio has finished or failed and a callback has
\* seen it, the play promise is resolved and the status poll is cleared.
NaturalFinishResolves ==
  \A o \in finishReported :
    /\ opPc[o] # "play"
    /\ playAudioCheckInterval # o
    /\ o \notin intervals

\* C5: speak() never rejects; every call that has settled is fulfilled, also when
\* the selected path threw.
SpeakNeverRejects ==
  \A o \in Ops : /\ settled[o] \in {"pending", "fulfilled"}
                 /\ opPc[o] = "done" => settled[o] = "fulfilled"

\* A call whose path threw has settled, and it fulfilled.
SpeakNeverRejectsWitness ==
  \E o \in Ops : opThrew[o] /\ opPc[o] = "done" /\ settled[o] = "fulfilled"

\* The pending request of call o is answered in this step.
RequestSettles(o) == opPc[o] = "fetch" /\ opPc'[o] # "fetch"

\* Call o waits for the backend's answer, or got none it could play and has not
\* resolved yet.
RemotePending(o) == opPc[o] = "fetch" \/ audioBase64[o] = "null"

\* C6: when the remote attempt of a call has failed and the call is not cancelled,
\* its text has been handed to TTSManager.speak exactly once, unchanged, and no call
\* does so twice; whenever a call waits for the backend or its remote attempt has
\* failed, a state follows in which no call waits and every failed one has resolved.
FallbackToSystem ==
  /\ [](\A o \in Ops :
          /\ ttsSpeakCalls[o] <= 1
          /\ (opUseOpenAI[o] /\ audioBase64[o] = "null" /\ ~aborted[o])
               => (ttsSpeakCalls[o] = 1 /\ handedText[o] = opText[o]))
  /\ (\E o \in Ops : RemotePending(o)) ~> (\A o \in Ops : ~RemotePending(o))

\* The remote attempt of an uncancelled call failed and the system engine speaks its text.
FallbackToSystemWitness ==
  \E o \in Ops :
    /\ opUseOpenAI[o] /\ audioBase64[o] = "null" /\ ~aborted[o]
    /\ lastAnswer \in {"null", "error", "timeout", "rateLimit"}
    /\ ttsSpeakCalls[o] = 1 /\ handedText[o] = opText[o]
    /\ synthQueue # <<>> /\ Head(synthQueue) = o

\* C7: a 429 answer with retryAfter 20 sets rateLimitUntil to the request time plus
\* 20 s; a speak(text, true) issued while now < rateLimitUntil starts no request and
\* calls the system engine, and one issued at or after rateLimitUntil starts a request.
RateLimitCooldown ==
  [][\A o \in Ops :
       /\ (RequestSettles(o) /\ lastAnswer' = "rateLimit")
            => rateLimitUntil' = opNow[o] + 20 * 1000
       /\ (opPc[o] = "none" /\ opPc'[o] # "none" /\ opUseOpenAI'[o])
            => IF now < rateLimitUntil
               THEN opPc'[o] # "fetch" /\ ttsSpeakCalls'[o] = 1 /\ audioBase64'[o] = "unset"
               ELSE opPc'[o] = "fetch" /\ opNow'[o] = now]_vars

\* After a 429, inside the cooldown, a speak(text, true) went to the system engine
\* without asking the backend.
RateLimitCooldownWitness ==
  \E o \in Ops :
    /\ lastAnswer = "rateLimit" /\ now < rateLimitUntil /\ now > 0
    /\ opUseOpenAI[o] /\ ~aborted[o] /\ audioBase64[o] = "unset" /\ opNow[o] = 0
    /\ ttsSpeakCalls[o] = 1 /\ opPc[o] \notin {"none", "done"}

\* C8: when the pending request of call o times out, rateLimitUntil becomes the
\* request time plus 10 s.
TimeoutSetsCooldown ==
  [][\A o \in Ops :
       (RequestSettles(o) /\ lastAnswer' = "timeout")
         => rateLimitUntil' = opNow[o] + TIMEOUT_COOLDOWN_MS]_vars

\* C9: whenever a request returns audio, rateLimitUntil is 0 right afterwards, also
\* when the call that issued it was aborted meanwhile.
SuccessClearsCooldown ==
  [][\A o \in Ops :
       (RequestSettles(o) /\ lastAnswer' = "audio") => rateLimitUntil' = 0]_vars

\* C10: a stopSpeaking() called when nothing is speaking changes none of the
\* fields controller, sound, play resolver, poll interval and rateLimitUntil.
StopSpeakingIdempotent ==
  [][((idleStop \/ idleStop') /\ opPc' = opPc)
       => UNCHANGED <<currentSpeakAbortController, sound, playAudioResolve,
                      playAudioCheckInterval, rateLimitUntil>>]_vars

\* Every stopSpeaking() call and every SystemTTS.stop() ran to its end.
TeardownFinished == engineStops = 0 /\ \A p \in StopPcs : stopProcs[p] = 0

\* C11: after a stopSpeaking() called while a speak() was in flight has resolved,
\* and as long as no new speak() is issued, nothing is audible and sound is null.
StopLeavesSinkStopped ==
  (stoppedMidFlight /\ TeardownFinished) => (AudibleOutputs = {} /\ sound = Null)

\* A step of a stopSpeaking() continuation or of a SystemTTS.stop() continuation.
TeardownStep ==
  /\ opPc' = opPc \/ \E o \in Ops : opPc[o] # "none" /\ opPc'[o] # opPc[o]
  /\ \A o \in Ops : opPc[o] = "none" => opPc'[o] = "none"
  /\ nStops' = nStops
  /\ stopProcs' # stopProcs \/ engineStops' # engineStops

\* Call o is the newest speak(): it superseded an earlier call and is not aborted.
Superseding(o) ==
  /\ opPc[o] \notin {"none", "done"} /\ ~aborted[o]
  /\ \E a \in Ops : a < o /\ aborted[a]

\* C12: when speak(B) supersedes speak(A), with no stopSpeaking() from the UI, the
\* teardown is over before B is audible, and no teardown step stops B's audio,
\* clears B's sound handle or clears the engine B is speaking through.
TeardownPrecedesAcquisition ==
  /\ [](\A o \in Ops : (nStops = 0 /\ Superseding(o) /\ Audible(o)) => TeardownFinished)
  /\ [][\A o \in Ops :
          (nStops = 0 /\ Superseding(o) /\ TeardownStep)
            => /\ Audible(o) => Audible(o)'
               /\ sound = o => sound' = o
               /\ (currentEngine /\ opPc[o] = "speaking") => currentEngine']_vars

----------------------------------------------------------------------------
\* ------------------------------------------------------------ audio capture

PollMs == 200
silenceThresholdMs == 3000
minRecordingDurationMs == 1000
\* The clock of the model counts from the start of the run; Date.now() is that plus
\* the time since the epoch, which matters where the code subtracts a timestamp
\* that was never taken (lastSpeechActivityTime stays 0: nothing assigns it).
Epoch == 1000000
DateNow == Epoch + now

\* The messages of the errors startRecording() throws, as their parts.
Wrapped(message) == <<"Failed to start recording: ", message>>

\* What getUserMedia rejects with, by its cause: a DOMException.
GetUserMediaError(cause) ==
  CASE cause = "denied" -> [name |-> "NotAllowedError", message |-> "Permission denied"]
    [] cause = "nodevice" -> [name |-> "NotFoundError", message |-> "Requested device not found"]
    [] OTHER -> [name |-> "NotReadableError", message |-> "Could not start audio source"]

\* The catch block of startWebRecording: the message of the error it throws.
WebStartError(error) ==
  IF error.name \in {"NotAllowedError", "PermissionDeniedError"} THEN "Microphone permission denied"
  ELSE IF error.name \in {"NotFoundError", "DevicesNotFoundError"} THEN "No microphone found"
  ELSE "Failed to start web recording: " \o error.message

\* The error the native path throws inside startRecording's try, by its cause.
NativeStartError(cause) ==
  IF cause = "denied" THEN "Audio permission not granted" ELSE "platform: " \o cause

\* A catch block that rethrows and leaves the fields as they are.
StartFailsKeepingSession(k, cause, message) ==
  /\ UNCHANGED <<isRecording, recording, webRecording, recordingSince>>
  /\ startPc' = [startPc EXCEPT ![k] = "failed"]
  /\ startCause' = [startCause EXCEPT ![k] = cause]
  /\ startError' = [startError EXCEPT ![k] = Wrapped(message)]

\* The catch block of startRecording (and, on web, of startWebRecording before it).
StartFails(k, cause, message) ==
  /\ isRecording' = FALSE
  /\ recording' = Null
  /\ webRecording' = IF platform = "web" THEN Null ELSE webRecording
  /\ recordingSince' = Never
  /\ startPc' = [startPc EXCEPT ![k] = "failed"]
  /\ startCause' = [startCause EXCEPT ![k] = cause]
  /\ startError' = [startError EXCEPT ![k] = Wrapped(message)]

NextStart == CHOOSE k \in Starts : startPc[k] = "none" /\ \A i \in Starts : i < k => startPc[i] # "none"

detectorVars == <<silenceCheckInterval, recordingStartTime, lastSpeechActivityTime, lastActivityAt,
                  armedAt, silenceFired, firedAt, pollDue, nArms>>
stopCallVars == <<stopPc, stopResult, stopTarget, onstop>>
otherVars == <<platform, speechVars, recogVars>>

\* The UI calls voiceService.startRecording().
StartRecording ==
  /\ \E k \in Starts : startPc[k] = "none"
  /\ LET k == NextStart
     IN IF isRecording
        THEN /\ startPc' = [startPc EXCEPT ![k] = "done"]
             /\ UNCHANGED <<isRecording, recording, webRecording, recordingSince,
                            startError, startCause>>
        ELSE /\ startPc' = [startPc EXCEPT ![k] =
                              IF platform = "web" THEN "getUserMedia" ELSE "permission"]
             /\ UNCHANGED <<isRecording, recording, webRecording, recordingSince,
                            startError, startCause>>
  /\ UNCHANGED <<stream, hasData, detectorVars, stopCallVars, otherVars, now>>

\* Web: navigator.mediaDevices is missing; startWebRecording throws at once.
StartRecordingUnsupported ==
  /\ platform = "web" /\ ~isRecording
  /\ \E k \in Starts : startPc[k] = "none"
  /\ StartFails(NextStart, "unsupported",
                WebStartError([name |-> "Error", message |-> "MediaRecorder API not supported"]))
  /\ UNCHANGED <<stream, hasData, detectorVars, stopCallVars, otherVars, now>>

\* Web: getUserMedia settles; on success the MediaRecorder is started on the stream.
GetUserMediaSettles ==
  /\ \E k \in Starts :
       /\ startPc[k] = "getUserMedia"
       /\ \/ /\ stream' = [stream EXCEPT ![k] = "open"]
             /\ webRecording' = k
             /\ isRecording' = TRUE
             /\ recordingSince' = now
             /\ startPc' = [startPc EXCEPT ![k] = "done"]
             /\ UNCHANGED <<recording, startError, startCause>>
          \/ /\ \E cause \in {"denied", "nodevice", "busy"} :
                  StartFails(k, cause, WebStartError(GetUserMediaError(cause)))
             /\ UNCHANGED stream
  /\ UNCHANGED <<hasData, detectorVars, stopCallVars, otherVars, now>>

\* Native: Audio.requestPermissionsAsync settles; Platform.OS is 'ios' or 'android'.
PermissionSettles ==
  /\ \E k \in Starts :
       /\ startPc[k] = "permission"
       /\ \/ /\ \E os \in {"ios", "android"} :
                  startPc' = [startPc EXCEPT ![k] = IF os = "ios" THEN "audioMode" ELSE "create"]
             /\ UNCHANGED <<isRecording, recording, webRecording, recordingSince,
                            startError, startCause>>
          \/ StartFails(k, "denied", NativeStartError("denied"))
  /\ UNCHANGED <<stream, hasData, detectorVars, stopCallVars, otherVars, now>>

\* Native: Audio.setAudioModeAsync settles (awaited on iOS only).
RecordingModeSettles ==
  /\ \E k \in Starts :
       /\ startPc[k] = "audioMode"
       /\ \/ /\ startPc' = [startPc EXCEPT ![k] = "create"]
             /\ UNCHANGED <<isRecording, recording, webRecording, recordingSince,
                            startError, startCause>>
          \/ StartFails(k, "audiomode", NativeStartError("audiomode"))
  /\ UNCHANGED <<stream, hasData, detectorVars, stopCallVars, otherVars, now>>

\* Native: Audio.Recording.createAsync settles.  expo-av prepares one Recording at
\* a time: it rejects while another one is prepared.
CreateRecordingSettles ==
  /\ \E k \in Starts :
       /\ startPc[k] = "create"
       /\ \/ /\ \A i \in Starts : stream[i] \notin {"open", "stopping"}
             /\ stream' = [stream EXCEPT ![k] = "open"]
             /\ recording' = k
             /\ isRecording' = TRUE
             /\ recordingSince' = now
             /\ startPc' = [startPc EXCEPT ![k] = "done"]
             /\ UNCHANGED <<webRecording, startError, startCause>>
          \/ /\ \E cause \in {"nodevice", "busy"} : StartFails(k, cause, NativeStartError(cause))
             /\ UNCHANGED stream
  /\ UNCHANGED <<hasData, detectorVars, stopCallVars, otherVars, now>>

\* The open input stream delivers audio.
AudioCaptured ==
  /\ \E k \in Starts : stream[k] = "open" /\ ~hasData[k]
       /\ hasData' = [hasData EXCEPT ![k] = TRUE]
  /\ UNCHANGED <<isRecording, recording, webRecording, recordingSince, startPc, startError,
                 startCause, stream, detectorVars, stopCallVars, otherVars, now>>

NextRecStop ==
  CHOOSE j \in RecStops : stopPc[j] = "none" /\ \A i \in RecStops : i < j => stopPc[i] # "none"

\* cleanupWebRecording(): the streams after it stopped the tracks of this.webRecording.
StreamsAfterCleanup(s) ==
  IF webRecording # Null THEN [s EXCEPT ![webRecording] = "closed"] ELSE s

\* stopRecording() call j returns result.
StopReturns(j, result) ==
  /\ stopPc' = [stopPc EXCEPT ![j] = "done"]
  /\ stopResult' = [stopResult EXCEPT ![j] = result]

\* The UI calls voiceService.stopRecording(): the code up to its first await.
StopRecording ==
  /\ \E j \in RecStops : stopPc[j] = "none"
  /\ LET j == NextRecStop
     IN /\ silenceCheckInterval' = Null
        /\ pollDue' = Never
        /\ IF ~isRecording
           THEN /\ StopReturns(j, "null")
                /\ UNCHANGED <<isRecording, recording, webRecording, stream, onstop, stopTarget>>
           ELSE IF platform = "web" /\ webRecording # Null
           THEN /\ stopTarget' = [stopTarget EXCEPT ![j] = webRecording]
                /\ IF stream[webRecording] # "open"
                   THEN /\ stream' = StreamsAfterCleanup(stream)
                        /\ webRecording' = Null
                        /\ isRecording' = FALSE
                        /\ StopReturns(j, "null")
                        /\ UNCHANGED <<recording, onstop>>
                   ELSE /\ onstop' = [onstop EXCEPT ![webRecording] = j]
                        /\ stream' = [stream EXCEPT ![webRecording] = "stopping"]
                        /\ stopPc' = [stopPc EXCEPT ![j] = "onstop"]
                        /\ UNCHANGED <<isRecording, recording, webRecording, stopResult>>
           ELSE IF recording = Null
           THEN /\ isRecording' = FALSE
                /\ StopReturns(j, "null")
                /\ UNCHANGED <<recording, webRecording, stream, onstop, stopTarget>>
           ELSE /\ stopTarget' = [stopTarget EXCEPT ![j] = recording]
                /\ stopPc' = [stopPc EXCEPT ![j] = "stopAndUnload"]
                /\ UNCHANGED <<isRecording, recording, webRecording, stream, onstop, stopResult>>
  /\ UNCHANGED <<startPc, startError, startCause, hasData, recordingSince,
                 recordingStartTime, lastSpeechActivityTime, lastActivityAt, armedAt, silenceFired, firedAt,
                 nArms, otherVars, now>>

\* Web: the MediaRecorder fires its stop event; the onstop handler of stopWebRecording.
WebOnStop ==
  /\ \E j \in RecStops :
       /\ stopPc[j] = "onstop"
       /\ LET k == stopTarget[j]
          IN IF ~hasData[k]
             THEN /\ stream' = StreamsAfterCleanup([stream EXCEPT ![k] = "closed"])
                  /\ webRecording' = Null
                  /\ isRecording' = FALSE
                  /\ silenceCheckInterval' = Null
                  /\ pollDue' = Never
                  /\ StopReturns(j, "null")
             ELSE /\ stream' = [stream EXCEPT ![k] = "closed"]
                  /\ stopPc' = [stopPc EXCEPT ![j] = "reader"]
                  /\ UNCHANGED <<webRecording, isRecording, silenceCheckInterval, pollDue,
                                 stopResult>>
  /\ UNCHANGED <<recording, startPc, startError, startCause, hasData, recordingSince,
                 stopTarget, onstop, recordingStartTime, lastSpeechActivityTime, lastActivityAt, armedAt,
                 silenceFired, firedAt, nArms, otherVars, now>>

\* Web: the FileReader finishes (onloadend) or fails (onerror).
ReaderSettles ==
  /\ \E j \in RecStops :
       /\ stopPc[j] = "reader"
       /\ \E result \in {"uri", "null"} : StopReturns(j, result)
  /\ stream' = StreamsAfterCleanup(stream)
  /\ webRecording' = Null
  /\ isRecording' = FALSE
  /\ silenceCheckInterval' = Null
  /\ pollDue' = Never
  /\ UNCHANGED <<recording, startPc, startError, startCause, hasData, recordingSince,
                 stopTarget, onstop, recordingStartTime, lastSpeechActivityTime, lastActivityAt, armedAt,
                 silenceFired, firedAt, nArms, otherVars, now>>

\* Native: recording.stopAndUnloadAsync() settles.  When it resolves the code reads
\* this.recording again for getURI(); a null there throws into the catch block.
StopAndUnloadSettles ==
  /\ \E j \in RecStops :
       /\ stopPc[j] = "stopAndUnload"
       /\ LET k == stopTarget[j]
          IN \/ /\ stream' = [stream EXCEPT ![k] = "closed"]
                /\ IF recording # Null
                   THEN /\ StopReturns(j, "uri")
                        /\ UNCHANGED <<webRecording, silenceCheckInterval, pollDue>>
                   ELSE /\ StopReturns(j, "null")
                        /\ webRecording' = Null
                        /\ silenceCheckInterval' = Null
                        /\ pollDue' = Never
             \/ /\ \E after \in {"closed", stream[k]} : stream' = [stream EXCEPT ![k] = after]
                /\ StopReturns(j, "null")
                /\ webRecording' = Null
                /\ silenceCheckInterval' = Null
                /\ pollDue' = Never
  /\ recording' = Null
  /\ isRecording' = FALSE
  /\ UNCHANGED <<startPc, startError, startCause, hasData, recordingSince,
                 stopTarget, onstop, recordingStartTime, lastSpeechActivityTime, lastActivityAt, armedAt,
                 silenceFired, firedAt, nArms, otherVars, now>>

\* Time passes while the microphone is open.
RecTick ==
  /\ isRecording
  /\ now < MaxPolls * PollMs
  /\ now' = now + PollMs
  /\ UNCHANGED <<platform, speechVars, recVars, recogVars>>

RecordingStep ==
  \/ StartRecording
  \/ StartRecordingUnsupported
  \/ GetUserMediaSettles
  \/ PermissionSettles
  \/ RecordingModeSettles
  \/ CreateRecordingSettles
  \/ AudioCaptured
  \/ StopRecording
  \/ WebOnStop
  \/ ReaderSettles
  \/ StopAndUnloadSettles

RecordingNext == RecordingStep \/ RecTick

RecordingSpec == Init /\ [][RecordingNext]_vars

LiveStreams == {k \in Starts : stream[k] \in {"open", "stopping"}}

\* C13: at most one input stream is open at any time, whether the second
\* startRecording() comes after the first completed or while the first is still
\* acquiring the microphone.
AtMostOneRecording == Cardinality(LiveStreams) <= 1

\* C14: a stopRecording() call that has returned did not throw, and returned null when
\* there was no active session and when the session it stopped had captured no
\* audio, on the web path and on the native path.
StopRecordingNullCases ==
  \A j \in RecStops :
    stopPc[j] = "done" =>
      /\ stopResult[j] \in {"null", "uri"}
      /\ (stopTarget[j] = Null \/ ~hasData[stopTarget[j]]) => stopResult[j] = "null"

FailedWith(k, cause) == startPc[k] = "failed" /\ startCause[k] = cause

\* C15: a start that failed for a denied permission and one that failed for a missing
\* device carry different errors, and the step in which a start fails leaves
\* isRecording false and the recording and webRecording handles null.
StartFailuresDistinctAndClean ==
  /\ [](\A a, b \in Starts :
          (FailedWith(a, "denied") /\ FailedWith(b, "nodevice")) => startError[a] # startError[b])
  /\ [][\A k \in Starts :
          (startPc[k] # "failed" /\ startPc'[k] = "failed")
            => (~isRecording' /\ recording' = Null /\ webRecording' = Null)]_vars

\* One start failed for a denied permission and the other for a missing device,
\* and the coordinator holds no session.
StartFailuresDistinctAndCleanWitness ==
  /\ \E a, b \in Starts : FailedWith(a, "denied") /\ FailedWith(b, "nodevice")
  /\ ~isRecording /\ recording = Null /\ webRecording = Null

\* ------------------------------------------------------- the silence detector
\* startSilenceDetection() is private and nothing in the source calls it: the
\* recording behaviours above never arm the detector.  The specification below adds
\* a caller, to examine the method as written.

\* A poll that skips the minimum recording duration.
NeverTooEarly(timeSinceStart) == FALSE

TooEarly(timeSinceStart) == timeSinceStart < minRecordingDurationMs

StartSilenceDetection ==
  /\ nArms < MaxArms
  /\ nArms' = nArms + 1
  /\ recordingStartTime' = DateNow
  /\ silenceCheckInterval' = nArms + 1
  /\ pollDue' = now + PollMs
  /\ armedAt' = now
  /\ silenceFired' = 0
  /\ firedAt' = Never
  /\ UNCHANGED <<isRecording, recording, webRecording, lastSpeechActivityTime, lastActivityAt, startPc,
                 startError, startCause, stopCallVars, stream, hasData, recordingSince,
                 otherVars, now>>

\* The interval callback set by startSilenceDetection; a callback is registered
\* with setSilenceDetectedCallback.
SilencePoll ==
  /\ silenceCheckInterval # Null
  /\ now >= pollDue
  /\ LET timeSinceStart == DateNow - recordingStartTime
         timeSinceLastSpeech == DateNow - lastSpeechActivityTime
     IN IF ~isRecording
        THEN /\ silenceCheckInterval' = Null
             /\ pollDue' = Never
             /\ UNCHANGED <<silenceFired, firedAt>>
        ELSE IF TooEarly(timeSinceStart)
        THEN /\ pollDue' = now + PollMs
             /\ UNCHANGED <<silenceCheckInterval, silenceFired, firedAt>>
        ELSE IF timeSinceLastSpeech >= silenceThresholdMs
        THEN /\ silenceCheckInterval' = Null
             /\ pollDue' = Never
             /\ silenceFired' = silenceFired + 1
             /\ firedAt' = now
        ELSE /\ pollDue' = now + PollMs
             /\ UNCHANGED <<silenceCheckInterval, silenceFired, firedAt>>
  /\ UNCHANGED <<isRecording, recording, webRecording, recordingStartTime,
                 lastSpeechActivityTime, lastActivityAt, armedAt, nArms, startPc, startError, startCause,
                 stopCallVars, stream, hasData, recordingSince, otherVars, now>>

\* Time passes up to the next callback of the armed interval.
SilenceTick ==
  /\ silenceCheckInterval # Null
  /\ now < pollDue
  /\ now' = now + PollMs
  /\ UNCHANGED <<platform, speechVars, recVars, recogVars>>

SilenceNext == RecordingStep \/ StartSilenceDetection \/ SilencePoll \/ SilenceTick

SilenceSpec == Init /\ [][SilenceNext]_vars

\* C19: within one arm cycle onSilence fires at most once and never before
\* minRecordingDurationMs has passed since the start the detector recorded, and once
\* it has fired the interval is cancelled until the detector is armed again.
SilenceDetectorSafety ==
  /\ silenceFired <= 1
  /\ firedAt # Never => firedAt - armedAt >= minRecordingDurationMs
  /\ silenceFired = 1 => (silenceCheckInterval = Null /\ pollDue = Never)

\* The detector was armed a second time and has fired in that cycle.
SilenceDetectorSafetyWitness == nArms = 2 /\ silenceFired = 1 /\ isRecording

\* C20: a recording started with startRecording() that has been running without
\* speech activity for more than 1000 + 3000 ms plus one polling period has had
\* onSilence fired, once, and not before 1000 ms after the start.
SilenceFiresInTime ==
  /\ (isRecording /\ recordingSince # Never
        /\ now - recordingSince > minRecordingDurationMs + silenceThresholdMs + PollMs)
       => silenceFired = 1
  /\ silenceFired <= 1
  /\ (firedAt # Never /\ recordingSince # Never)
       => firedAt - recordingSince >= minRecordingDurationMs

----------------------------------------------------------------------------
\* ------------------------------------------------------- speech recognition

nonRecogVars == <<platform, now, speechVars, recVars>>

NextRecog ==
  CHOOSE c \in Recogs : recogPc[c] = "none" /\ \A i \in Recogs : i < c => recogPc[i] # "none"

\* resolve() without the isResolved guard: a later call replaces the value.
ResolveAgain(c, value) == [resolvedWith EXCEPT ![c] = value]

\* resolve(value) on the promise of call c: only the first call has an effect.
SafeResolve(c, value) ==
  IF resolvedWith[c] = "pending" THEN [resolvedWith EXCEPT ![c] = value] ELSE resolvedWith

\* The transcript a mobile call resolves with: confirmedTranscript || finalTranscript,
\* where finalTranscript holds partial results too.
TranscriptToUse(c) == IF heard[c] # "none" THEN "text" ELSE "null"

\* stopRecognition(): the sessions after it.
StopRecognition ==
  IF recognition # Null /\ isRecognizing /\ session[recognition] = "running"
  THEN [session EXCEPT ![recognition] = "stopping"]
  ELSE session

\* Mobile: safeResolve(value) of call c with its cleanup(), and the finally() handler
\* of createRecognitionPromise.
MobileResolve(c, value) ==
  /\ resolvedWith' = SafeResolve(c, value)
  /\ timeoutId' = [timeoutId EXCEPT ![c] = FALSE]
  /\ silenceInterval' = [silenceInterval EXCEPT ![c] = FALSE]
  /\ currentRecognitionPromise' =
       IF currentRecognitionPromise = c THEN Null ELSE currentRecognitionPromise
  /\ recogPc' = [recogPc EXCEPT ![c] = "finished"]

\* The UI calls voiceService.startSpeechRecognition(): on web the whole of
\* startWebSpeechRecognition, on mobile the code up to `await Audio.setAudioModeAsync`.
StartSpeechRecognition ==
  /\ \E c \in Recogs : recogPc[c] = "none"
  /\ LET c == NextRecog
     IN IF platform = "web"
        THEN \E outcome \in {"ok", "unavailable", "throws"} :
               IF outcome = "unavailable"
               THEN /\ resolvedWith' = SafeResolve(c, "null")
                    /\ recogPc' = [recogPc EXCEPT ![c] = "finished"]
                    /\ UNCHANGED <<isRecognizing, recognition, session, timeoutId>>
               ELSE IF outcome = "ok"
               THEN /\ isRecognizing' = TRUE
                    /\ recognition' = c
                    /\ session' = [StopRecognition EXCEPT ![c] = "running"]
                    /\ timeoutId' = [timeoutId EXCEPT ![c] = TRUE]
                    /\ recogPc' = [recogPc EXCEPT ![c] = "listening"]
                    /\ UNCHANGED resolvedWith
               ELSE /\ isRecognizing' = FALSE
                    /\ recognition' = Null
                    /\ session' = StopRecognition
                    /\ timeoutId' = [timeoutId EXCEPT ![c] = TRUE]
                    /\ resolvedWith' = SafeResolve(c, "null")
                    /\ recogPc' = [recogPc EXCEPT ![c] = "finished"]
        ELSE /\ recogPc' = [recogPc EXCEPT ![c] = "audioMode"]
             /\ UNCHANGED <<isRecognizing, recognition, session, timeoutId, resolvedWith>>
  /\ UNCHANGED <<currentRecognitionPromise, heard, silenceInterval, timedOut, voiceOwner,
                 voiceRunning, nRecogStops, nonRecogVars>>

\* Mobile: Audio.setAudioModeAsync settles (a rejection is caught and logged); then
\* startMobileSpeechRecognition up to its await, or through createRecognitionPromise.
RecognitionModeSettles ==
  /\ \E c \in Recogs :
       /\ recogPc[c] = "audioMode"
       /\ IF currentRecognitionPromise # Null
          THEN /\ recogPc' = [recogPc EXCEPT ![c] = "wait"]
               /\ UNCHANGED currentRecognitionPromise
          ELSE /\ recogPc' = [recogPc EXCEPT ![c] = "available"]
               /\ currentRecognitionPromise' = c
  /\ UNCHANGED <<isRecognizing, recognition, heard, resolvedWith, timeoutId, silenceInterval,
                 timedOut, session, voiceOwner, voiceRunning, nRecogStops, nonRecogVars>>

\* Mobile: the race of the previous promise and the 300 ms timer settles; then
\* createRecognitionPromise.
WaitSettles ==
  /\ \E c \in Recogs :
       /\ recogPc[c] = "wait"
       /\ recogPc' = [recogPc EXCEPT ![c] = "available"]
       /\ currentRecognitionPromise' = c
  /\ UNCHANGED <<isRecognizing, recognition, heard, resolvedWith, timeoutId, silenceInterval,
                 timedOut, session, voiceOwner, voiceRunning, nRecogStops, nonRecogVars>>

\* Mobile: Voice.isAvailable() settles; when available the handlers of the call are
\* put on Voice, its timers are set and Voice.start() is called, which starts a
\* session or fails.
IsAvailableSettles ==
  /\ \E c \in Recogs :
       /\ recogPc[c] = "available"
       /\ \E outcome \in {"ok", "unavailable", "startFails"} :
            IF outcome = "unavailable"
            THEN /\ MobileResolve(c, "null")
                 /\ UNCHANGED <<voiceOwner, voiceRunning>>
            ELSE IF outcome = "startFails"
            THEN /\ MobileResolve(c, "null")
                 /\ voiceOwner' = c
                 /\ UNCHANGED voiceRunning
            ELSE /\ voiceOwner' = c
                 /\ voiceRunning' = TRUE
                 /\ timeoutId' = [timeoutId EXCEPT ![c] = TRUE]
                 /\ silenceInterval' = [silenceInterval EXCEPT ![c] = TRUE]
                 /\ recogPc' = [recogPc EXCEPT ![c] = "listening"]
                 /\ UNCHANGED <<resolvedWith, currentRecognitionPromise>>
  /\ UNCHANGED <<isRecognizing, recognition, heard, timedOut, session, nRecogStops,
                 nonRecogVars>>

\* Mobile: the session delivers an event to the handlers Voice holds.
VoiceEvent ==
  /\ voiceRunning /\ voiceOwner # Null
  /\ LET c == voiceOwner
     IN \E e \in {"partial", "results", "end", "error"} :
          CASE e = "partial" ->
                 /\ heard[c] = "none"
                 /\ heard' = [heard EXCEPT ![c] = "partial"]
                 /\ UNCHANGED <<resolvedWith, timeoutId, silenceInterval,
                                currentRecognitionPromise, recogPc, voiceRunning>>
            [] e = "results" ->
                 /\ heard[c] # "final"
                 /\ heard' = [heard EXCEPT ![c] = "final"]
                 /\ IF resolvedWith[c] = "pending"
                    THEN MobileResolve(c, "text")
                    ELSE UNCHANGED <<resolvedWith, timeoutId, silenceInterval,
                                     currentRecognitionPromise, recogPc>>
                 /\ UNCHANGED voiceRunning
            [] e = "end" ->
                 /\ MobileResolve(c, TranscriptToUse(c))
                 /\ voiceRunning' = FALSE
                 /\ UNCHANGED heard
            [] OTHER ->
                 /\ MobileResolve(c, "null")
                 /\ voiceRunning' = FALSE
                 /\ UNCHANGED heard
  /\ UNCHANGED <<isRecognizing, recognition, timedOut, session, voiceOwner, nRecogStops,
                 nonRecogVars>>

\* The timeout of a call fires.  Web: recognition.stop().  Mobile: Voice.stop() and
\* safeResolve with the transcript so far.
RecognitionTimeout ==
  /\ \E c \in Recogs :
       /\ timeoutId[c]
       /\ timedOut' = [timedOut EXCEPT ![c] = (resolvedWith[c] = "pending")]
       /\ IF platform = "web"
          THEN /\ timeoutId' = [timeoutId EXCEPT ![c] = FALSE]
               /\ session' = [session EXCEPT ![c] = IF @ = "running" THEN "stopping" ELSE @]
               /\ UNCHANGED <<resolvedWith, silenceInterval, currentRecognitionPromise,
                              recogPc, voiceRunning>>
          ELSE /\ MobileResolve(c, TranscriptToUse(c))
               /\ voiceRunning' = FALSE
               /\ UNCHANGED session
  /\ UNCHANGED <<isRecognizing, recognition, heard, voiceOwner, nRecogStops, nonRecogVars>>

\* Mobile: the silence interval of a call finds a transcript and SILENCE_THRESHOLD_MS
\* without speech.
MobileSilence ==
  /\ \E c \in Recogs :
       /\ silenceInterval[c]
       /\ heard[c] # "none"
       /\ MobileResolve(c, "text")
  /\ voiceRunning' = FALSE
  /\ UNCHANGED <<isRecognizing, recognition, heard, timedOut, session, voiceOwner,
                 nRecogStops, nonRecogVars>>

\* Web: recognition.onresult.  Interim results go to the UI callback only; final
\* results are appended to finalTranscript.  A session that was told to stop may
\* still deliver a final result.
WebResult ==
  /\ \E c \in Recogs : \E kind \in {"partial", "final"} :
       /\ session[c] \in {"running", "stopping"}
       /\ kind = "partial" => (session[c] = "running" /\ heard[c] = "none")
       /\ heard[c] # "final"
       /\ heard' = [heard EXCEPT ![c] = kind]
  /\ UNCHANGED <<isRecognizing, recognition, currentRecognitionPromise, recogPc,
                 resolvedWith, timeoutId, silenceInterval, timedOut, session, voiceOwner,
                 voiceRunning, nRecogStops, nonRecogVars>>

\* Web: the session ends: recognition.onend, or recognition.onerror followed by it.
WebEnd ==
  /\ \E c \in Recogs : \E ev \in {"end", "error"} :
       /\ session[c] \in {"running", "stopping"}
       /\ session' = [session EXCEPT ![c] = IF ev = "end" THEN "ended" ELSE "failed"]
       /\ timeoutId' = [timeoutId EXCEPT ![c] = FALSE]
       /\ resolvedWith' =
            SafeResolve(c, IF ev = "end" /\ heard[c] = "final" THEN "text" ELSE "null")
       /\ recogPc' = [recogPc EXCEPT ![c] = "finished"]
  /\ isRecognizing' = FALSE
  /\ recognition' = Null
  /\ UNCHANGED <<currentRecognitionPromise, heard, silenceInterval, timedOut, voiceOwner,
                 voiceRunning, nRecogStops, nonRecogVars>>

\* The UI calls voiceService.stopSpeechRecognition().
StopSpeechRecognition ==
  /\ nRecogStops < MaxRecogStops
  /\ nRecogStops' = nRecogStops + 1
  /\ IF platform = "web"
     THEN /\ session' = StopRecognition
          /\ isRecognizing' = (isRecognizing /\ recognition = Null)
          /\ recognition' = IF isRecognizing THEN Null ELSE recognition
          /\ UNCHANGED <<voiceOwner, voiceRunning, currentRecognitionPromise>>
     ELSE /\ voiceRunning' = FALSE
          /\ voiceOwner' = Null
          /\ currentRecognitionPromise' = Null
          /\ UNCHANGED <<session, isRecognizing, recognition>>
  /\ UNCHANGED <<recogPc, heard, resolvedWith, timeoutId, silenceInterval, timedOut,
                 nonRecogVars>>

RecognitionSystemNext ==
  \/ RecognitionModeSettles
  \/ WaitSettles
  \/ IsAvailableSettles
  \/ VoiceEvent
  \/ RecognitionTimeout
  \/ MobileSilence
  \/ WebResult
  \/ WebEnd

RecognitionNext == StartSpeechRecognition \/ StopSpeechRecognition \/ RecognitionSystemNext

RecognitionSpec == Init /\ [][RecognitionNext]_vars

RecognitionFairSpec == RecognitionSpec /\ WF_vars(RecognitionSystemNext)

\* The recognizer sessions on the input device: the web sessions that have not
\* ended, and the session of the Voice singleton.
RunningSessions ==
  {c \in Recogs : session[c] \in {"running", "stopping"}}
    \cup (IF voiceRunning THEN {Null} ELSE {})

\* Call c has created its recognition and is not resolved.
InFlight(c) == recogPc[c] \in {"available", "listening"}

\* C16: at most one recognizer session runs on the input device at any time, and a
\* call that creates its recognition while an earlier one is in flight has first
\* waited for it.
RecognitionSerialized ==
  /\ [](Cardinality(RunningSessions) <= 1)
  /\ [][\A c \in Recogs :
          (~InFlight(c) /\ InFlight(c)' /\ \E d \in Recogs : d # c /\ InFlight(d))
            => recogPc[c] = "wait"]_vars

\* C17: a call whose timeout fired and which is resolved, its recognizer not having
\* failed, was resolved with the transcript accumulated so far, partial results
\* included, and with null only when nothing was accumulated; its recognizer is no
\* longer listening.
TimeoutKeepsTranscript ==
  \A c \in Recogs :
    (timedOut[c] /\ resolvedWith[c] # "pending" /\ session[c] # "failed") =>
      /\ resolvedWith[c] = (IF heard[c] # "none" THEN "text" ELSE "null")
      /\ session[c] # "running"

SpeechActivity ==
  /\ isRecording /\ silenceCheckInterval # Null
  /\ lastActivityAt # now
  /\ lastActivityAt' = now
  /\ UNCHANGED <<isRecording, recording, webRecording, silenceCheckInterval,
                 recordingStartTime, lastSpeechActivityTime, startPc, startError, startCause,
                 stopCallVars, stream, hasData, recordingSince, armedAt, silenceFired, firedAt,
                 pollDue, nArms, otherVars, now>>

ActivityNext == SilenceNext \/ SpeechActivity

ActivitySpec == Init /\ [][ActivityNext]_vars

----------------------------------------------------------------------------
\* The speak() calls in flight whose token is not aborted.
LiveTokens == {o \in Ops : opPc[o] \notin {"none", "done"} /\ ~aborted[o]}

\* C22: a token never goes back from aborted to not aborted; at most one speak()
\* in flight holds a token that is not aborted, it is the call issued last, and
\* currentSpeakAbortController is null or is that token.
TokenDiscipline ==
  /\ [](/\ Cardinality(LiveTokens) <= 1
        /\ \A o \in LiveTokens : \A p \in Ops : opPc[p] # "none" => p <= o
        /\ currentSpeakAbortController # Null
             => currentSpeakAbortController \in LiveTokens)
  /\ [][\A o \in Ops : aborted[o] => aborted'[o]]_vars

\* Two speak() calls are in flight: the first one's token is aborted, the second
\* one's is live and is the current controller.
TokenDisciplineWitness ==
  /\ \A o \in Ops : opPc[o] \notin {"none", "done"}
  /\ aborted[1] /\ ~aborted[2]
  /\ currentSpeakAbortController = 2

\* C23: a token aborted while the engine is speaking resolves the engine's speak in
\* the same step and leads to no further TTSManager.speak or engine call; no
\* TTSManager.speak is called and no utterance is started for a call whose token is
\* aborted, also after its remote playback was cut short.
AbortDoesNotCascade ==
  [][\A o \in Ops :
       /\ (opPc[o] = "speaking" /\ ~aborted[o] /\ aborted'[o]) => opPc'[o] = "resolved"
       /\ aborted[o] =>
            /\ ttsSpeakCalls'[o] = ttsSpeakCalls[o]
            /\ opPc'[o] = "speaking" => opPc[o] = "speaking"
            /\ o \in Range(synthQueue') => o \in Range(synthQueue)]_vars

\* A call on the remote path was aborted during its playback and has resolved
\* without any TTSManager.speak call.
AbortDoesNotCascadeWitness ==
  \E o \in Ops :
    /\ aborted[o] /\ cancelledAt[o] = "play" /\ opPc[o] = "resolved"
    /\ opUseOpenAI[o] /\ ttsSpeakCalls[o] = 0

\* Mobile: the play promise of call o is pending while its sound is loaded but
\* stopped, or unloaded, or no longer the coordinator's sound.
StoppedExternally(o) ==
  /\ platform = "mobile" /\ opPc[o] = "play"
  /\ soundState[o] \in {"stopped", "unloaded"} \/ sound # o

\* C24: a pending mobile play promise whose sound is reported loaded and not
\* playing, or unloaded, or whose handle was replaced or cleared, gets resolved.
ExternalStopResolves ==
  (\E o \in Ops : StoppedExternally(o)) ~> (\A o \in Ops : ~StoppedExternally(o))

\* The positions of a call on the remote path: the request, the file, the playback.
RemotePcs == {"fetch", "save", "unload", "create", "play"}

\* C25: a speak(text, false) call is never at a step of the remote path and has
\* called TTSManager.speak once, whatever the cooldown; the step that issues it
\* leaves rateLimitUntil as it is, and rateLimitUntil changes only when the request
\* of a speak(text, true) call settles.
SystemOnlyPath ==
  /\ [](\A o \in Ops : (opPc[o] # "none" /\ ~opUseOpenAI[o])
          => (opPc[o] \notin RemotePcs /\ ttsSpeakCalls[o] = 1))
  /\ [][rateLimitUntil' # rateLimitUntil
          => \E o \in Ops : opUseOpenAI[o] /\ opPc[o] = "fetch" /\ opPc'[o] # "fetch"]_vars

\* A speak(text, false) call is speaking while a cooldown is running.
SystemOnlyPathWitness ==
  \E o \in Ops : ~opUseOpenAI[o] /\ opPc[o] = "speaking" /\ now < rateLimitUntil

\* C26: the late event of an utterance that cancel() dropped, or of an audio element
\* whose source was emptied, leaves every other call where it is, leaves the
\* SystemTTS flag and resolver of the current utterance in place, and leaves the
\* poll interval of the current playback set.
StaleEventsIsolated ==
  [][LET late == (staleUtterance \ staleUtterance') \cup (staleAudio \ staleAudio')
     IN late # {} =>
          \A o \in Ops \ late :
            /\ opPc[o] \in {"speaking", "play"} => opPc'[o] = opPc[o]
            /\ resolveCallback = o => (resolveCallback' = o /\ isSpeaking' = isSpeaking)
            /\ playAudioCheckInterval = o => playAudioCheckInterval' = o]_vars

\* C27: on web, a recognizer session that is running (started and not told to stop) is
\* the one the coordinator tracks: isRecognizing is true and recognition refers to it;
\* the end or error event of an earlier recognizer leaves a newer one tracked.
WebRecognizerTracked ==
  \A c \in Recogs :
    (platform = "web" /\ session[c] = "running") => (isRecognizing /\ recognition = c)

\* C28: on mobile, the step in which a timer of call c fires (its timers go from set to
\* cleared while the Voice handlers belong to another call) leaves the running
\* session of that other call running, and a resolved call has neither its timeout
\* nor its silence interval set.
TimersOwnSession ==
  /\ [][\A c \in Recogs :
          (/\ platform = "mobile"
           /\ timeoutId[c] /\ ~timeoutId'[c]
           /\ voiceRunning /\ voiceOwner \notin {Null, c}) => voiceRunning']_vars
  /\ [](\A c \in Recogs :
          (platform = "mobile" /\ resolvedWith[c] # "pending")
            => (~timeoutId[c] /\ ~silenceInterval[c]))

\* C29: the step in which a speak() call finishes leaves currentSpeakPromise and
\* currentSpeakAbortController alone when they belong to another call; each field
\* becomes null only in the finishing step of the call it refers to or, for the
\* controller, in stopSpeaking(); and after a stopSpeaking() step every speak() call
\* in flight is aborted.
SuccessorBookkeepingKept ==
  /\ [][\A o \in Ops :
          (opPc[o] = "resolved" /\ opPc'[o] = "done") =>
            /\ currentSpeakPromise # o => currentSpeakPromise' = currentSpeakPromise
            /\ currentSpeakAbortController # o
                 => currentSpeakAbortController' = currentSpeakAbortController]_vars
  /\ [][/\ (currentSpeakPromise # Null /\ currentSpeakPromise' = Null)
             => (opPc[currentSpeakPromise] = "resolved" /\ opPc'[currentSpeakPromise] = "done")
        /\ (currentSpeakAbortController # Null /\ currentSpeakAbortController' = Null)
             => \/ nStops' # nStops
                \/ /\ opPc[currentSpeakAbortController] = "resolved"
                   /\ opPc'[currentSpeakAbortController] = "done"]_vars
  /\ [][nStops' # nStops
          => \A o \in Ops : opPc'[o] \notin {"none", "done"} => aborted'[o]]_vars

\* The first call, aborted by the second speak(), has finished while the second is in
\* flight and still owns both fields.
SuccessorBookkeepingKeptWitness ==
  /\ nStops = 0
  /\ opPc[1] = "done" /\ aborted[1]
  /\ opPc[2] \notin {"none", "done"} /\ ~aborted[2]
  /\ currentSpeakPromise = 2 /\ currentSpeakAbortController = 2

\* Every startRecording() and stopRecording() call made so far has returned.
RecordingCallsCompleted ==
  /\ \A k \in Starts : startPc[k] \in {"none", "done", "failed"}
  /\ \A j \in RecStops : stopPc[j] \in {"none", "done"}

\* C30: when all startRecording()/stopRecording() calls have returned, isRecording is
\* true exactly when recording or webRecording holds a handle, and every input stream
\* that is still open is the one that handle refers to; and the step in which a
\* stopRecording() call begins leaves the silence detector disarmed.
NoOrphanedMicrophone ==
  /\ [](RecordingCallsCompleted =>
          /\ isRecording <=> (recording # Null \/ webRecording # Null)
          /\ LiveStreams \subseteq {recording, webRecording})
  /\ [][(\E j \in RecStops : stopPc[j] = "none" /\ stopPc'[j] # "none")
          => silenceCheckInterval' = Null]_vars

====
